---- MODULE Spec2Model ----
(***************************************************************************)
(* Team Boards (src/streamlit_app.py): the in-memory store kept in         *)
(* st.session_state, the helper functions that change it, the button       *)
(* handlers of the page, and the derived queries (blocked, next status,    *)
(* workload).                                                              *)
(*                                                                         *)
(* Ids are uuid4 strings in the program; here a fresh id is the next value *)
(* of a counter kept in the store, so ids are never reused. Dates are day  *)
(* numbers, None is the value -1 (a date is always truthy in Python, None  *)
(* is falsy). Inert text fields (description, email, created_by) are left  *)
(* out of the records.                                                     *)
(***************************************************************************)
EXTENDS Integers, Sequences, FiniteSets, TLC

VARIABLES ss, sel_board_name, prev, lastOp, wl, steps

vars == <<ss, sel_board_name, prev, lastOp, wl, steps>>

\* ------------------------------------------------------------------ bounds
\* Number of operations explored from the initial store.
MaxSteps == 2
\* Last day number of the calendar of the workload specification.
MaxDay == 2
\* Number of dep_add calls and Kanban moves explored from the initial store.
MaxCycleSteps == 3

\* ------------------------------------------------------------- constants
None == -1
\* The day the session starts (date.today() when the demo data is seeded).
SeedDay == 0
\* The number of days from 1970-01-01 to the day the session starts.
DaysSinceEpoch == 20000
\* pd.to_datetime reads a number as nanoseconds; to_json writes milliseconds.
NsPerMs == 1000000

STATUS_CHOICES == <<"Not started", "In progress", "Blocked", "Done">>

StatusSet == {STATUS_CHOICES[k] : k \in 1..Len(STATUS_CHOICES)}

\* ------------------------------------------------------------ dictionaries
\* d[k] = v on a dict.
Put(d, k, v) == [x \in (DOMAIN d) \cup {k} |-> IF x = k THEN v ELSE d[x]]

\* d.pop(k, None) on a dict.
Pop(d, k) == [x \in (DOMAIN d) \ {k} |-> d[x]]

Max(S) == CHOOSE x \in S : \A y \in S : y <= x

Min(S) == CHOOSE x \in S : \A y \in S : x <= y

\* ------------------------------------------------------------------ store
EmptyStore ==
    [team_members |-> <<>>, boards |-> <<>>, groups |-> <<>>, items |-> <<>>,
     item_assignments |-> {}, item_dependencies |-> {}, uuid |-> 0]

add_member(s, name) ==
    [s EXCEPT !.uuid = s.uuid + 1,
              !.team_members = Put(s.team_members, s.uuid + 1, [name |-> name])]

add_board(s, name) ==
    [s EXCEPT !.uuid = s.uuid + 1,
              !.boards = Put(s.boards, s.uuid + 1, [name |-> name])]

add_group(s, board_id, name, position) ==
    [s EXCEPT !.uuid = s.uuid + 1,
              !.groups = Put(s.groups, s.uuid + 1,
                  [board_id |-> board_id, name |-> name, position |-> position])]

add_item(s, board_id, group_id, title, status, start, due, tstart, tend) ==
    [s EXCEPT !.uuid = s.uuid + 1,
              !.items = Put(s.items, s.uuid + 1,
                  [board_id |-> board_id, group_id |-> group_id, title |-> title,
                   status |-> status, start_date |-> start, due_date |-> due,
                   timeline_start |-> tstart, timeline_end |-> tend])]

assign(s, item_id, user_id) ==
    [s EXCEPT !.item_assignments = @ \cup {<<item_id, user_id>>}]

unassign(s, item_id, user_id) ==
    [s EXCEPT !.item_assignments = @ \ {<<item_id, user_id>>}]

dep_add_unchecked(s, item_id, depends_on_id) ==
    [s EXCEPT !.item_dependencies = @ \cup {<<item_id, depends_on_id>>}]

dep_add(s, item_id, depends_on_id) ==
    IF item_id # depends_on_id
    THEN [s EXCEPT !.item_dependencies = @ \cup {<<item_id, depends_on_id>>}]
    ELSE s

dep_clear_both_ends(s, item_id) ==
    [s EXCEPT !.item_dependencies =
        {p \in @ : p[1] # item_id /\ p[2] # item_id}]

dep_clear_for_item(s, item_id) ==
    [s EXCEPT !.item_dependencies = {p \in @ : p[1] # item_id}]

\* The loop of item_is_blocked over the list deps, with its early return.
RECURSIVE blocked_loop(_, _)
blocked_loop(s, deps) ==
    IF deps = {} THEN FALSE
    ELSE LET dep_id == CHOOSE d \in deps : TRUE
         IN IF dep_id \notin DOMAIN s.items \/ s.items[dep_id].status # "Done"
            THEN TRUE
            ELSE blocked_loop(s, deps \ {dep_id})

item_is_blocked_ignoring_missing(s, item_id) ==
    \E p \in s.item_dependencies :
        /\ p[1] = item_id
        /\ p[2] \in DOMAIN s.items
        /\ s.items[p[2]].status # "Done"

item_is_blocked(s, item_id) ==
    LET deps == {p[2] : p \in {q \in s.item_dependencies : q[1] = item_id}}
    IN IF deps = {} THEN FALSE ELSE blocked_loop(s, deps)

StatusIndex(status) == CHOOSE k \in 1..Len(STATUS_CHOICES) : STATUS_CHOICES[k] = status

\* STATUS_CHOICES[(idx + 1) % len(STATUS_CHOICES)], idx counted from 0.
next_status(status) ==
    STATUS_CHOICES[(((StatusIndex(status) - 1) + 1) % Len(STATUS_CHOICES)) + 1]

members_for_item(s, item_id) ==
    {p[2] : p \in {q \in s.item_assignments :
                      q[1] = item_id /\ q[2] \in DOMAIN s.team_members}}

ensure_date(v) == IF v >= 0 THEN v ELSE None

\* a or b or c on optional dates.
Or3(a, b, c) == IF a # None THEN a ELSE IF b # None THEN b ELSE c

\* ------------------------------------------------------------------- seed
seed_demo_data(s0) ==
    LET s1 == add_member(s0, "Alice")
        me == s1.uuid
        s2 == add_member(s1, "Bob")
        bob == s2.uuid
        s3 == add_member(s2, "Charlie")
        ch == s3.uuid
        s4 == add_board(s3, "Sample Project")
        b == s4.uuid
        s5 == add_group(s4, b, "Backlog", 0)
        g1 == s5.uuid
        s6 == add_group(s5, b, "In Progress", 1)
        g2 == s6.uuid
        s7 == add_group(s6, b, "Review", 2)
        g3 == s7.uuid
        s8 == add_item(s7, b, g1, "Define requirements", "Not started",
                       None, None, None, None)
        i1 == s8.uuid
        s9 == add_item(s8, b, g1, "Wireframes", "Not started",
                       None, None, None, None)
        i2 == s9.uuid
        s10 == add_item(s9, b, g2, "API skeleton", "In progress",
                        SeedDay, SeedDay + 7, SeedDay, SeedDay + 7)
        i3 == s10.uuid
        s11 == add_item(s10, b, g3, "Review architecture", "Blocked",
                        None, None, None, None)
        i4 == s11.uuid
        s12 == assign(assign(assign(assign(s11, i1, me), i2, me), i3, bob), i4, ch)
    IN dep_add(s12, i4, i3)

\* The boards table is empty on the first run, so the demo data is seeded.
ss_init == seed_demo_data(EmptyStore)

\* An id no add_* call ever returned.
GhostId == EmptyStore.uuid

\* ------------------------------------------------- board-scoped prefetch
\* id_by_boardname.get(sel_board_name): a later board of the same name wins.
current_board_id(s, sel) ==
    LET named == {b \in DOMAIN s.boards : s.boards[b].name = sel}
    IN IF named = {} THEN None ELSE Max(named)

\* sorted(groups, key=position): stable, so ties keep insertion order.
RECURSIVE sort_by_position(_, _)
sort_by_position(s, G) ==
    IF G = {} THEN <<>>
    ELSE LET g == CHOOSE x \in G : \A y \in G :
                     \/ s.groups[x].position < s.groups[y].position
                     \/ (s.groups[x].position = s.groups[y].position /\ x <= y)
         IN <<g>> \o sort_by_position(s, G \ {g})

\* groups: the ids of the current board's groups in display order.
board_groups(s, b) ==
    sort_by_position(s, {g \in DOMAIN s.groups : s.groups[g].board_id = b})

group_names(s, b) ==
    [k \in 1..Len(board_groups(s, b)) |-> s.groups[board_groups(s, b)[k]].name]

\* items: the ids of the current board's items.
board_items(s, b) == {i \in DOMAIN s.items : s.items[i].board_id = b}

\* next(g["id"] for g in groups if g["name"] == gname)
first_group_named(s, b, gname) ==
    LET gs == board_groups(s, b)
        k == Min({j \in 1..Len(gs) : s.groups[gs[j]].name = gname})
    IN gs[k]

HasGroupNamed(s, b, gname) ==
    \E j \in 1..Len(board_groups(s, b)) : s.groups[board_groups(s, b)[j]].name = gname

member_names(s) == {s.team_members[u].name : u \in DOMAIN s.team_members}

\* next(uid for uid, mem in team_members.items() if mem["name"] == on)
first_member_named(s, on) ==
    Min({u \in DOMAIN s.team_members : s.team_members[u].name = on})

\* ---------------------------------------------------------------- handlers
RECURSIVE assign_all(_, _, _)
assign_all(s, item_id, uids) ==
    IF uids = {} THEN s
    ELSE assign_all(assign(s, item_id, Min(uids)), item_id, uids \ {Min(uids)})

RECURSIVE unassign_all(_, _, _)
unassign_all(s, item_id, uids) ==
    IF uids = {} THEN s
    ELSE unassign_all(unassign(s, item_id, Min(uids)), item_id, uids \ {Min(uids)})

RECURSIVE dep_add_all(_, _, _)
dep_add_all(s, item_id, oids) ==
    IF oids = {} THEN s
    ELSE dep_add_all(dep_add(s, item_id, Min(oids)), item_id, oids \ {Min(oids)})

\* "Create board": the board and its three default groups.
create_board(s, nb) ==
    LET s1 == add_board(s, nb)
        bid == s1.uuid
    IN add_group(add_group(add_group(s1, bid, "Backlog", 0), bid, "In Progress", 1),
                 bid, "Done", 2)

clear_board_keeping_assignments(s, b) ==
    LET to_del == board_items(s, b)
    IN [s EXCEPT !.items = [i \in (DOMAIN s.items) \ to_del |-> s.items[i]],
                 !.item_dependencies =
                     {p \in @ : p[1] \notin to_del /\ p[2] \notin to_del}]

\* "Clear board items": the items of the board and the pairs that mention them.
clear_board(s, b) ==
    LET to_del == board_items(s, b)
    IN [s EXCEPT !.items = [i \in (DOMAIN s.items) \ to_del |-> s.items[i]],
                 !.item_assignments = {p \in @ : p[1] \notin to_del},
                 !.item_dependencies =
                     {p \in @ : p[1] \notin to_del /\ p[2] \notin to_del}]

\* "Add item": the form f is [title, gname, status, start, due, tstart, tend, owners].
add_item_form(s, b, f) ==
    IF ~HasGroupNamed(s, b, f.gname) THEN s
    ELSE LET gid == first_group_named(s, b, f.gname)
             s1 == add_item(s, b, gid, f.title, f.status, ensure_date(f.start),
                            ensure_date(f.due), ensure_date(f.tstart), ensure_date(f.tend))
         IN assign_all(s1, s1.uuid, {first_member_named(s, on) : on \in f.owners})

\* others: (title, id) of the board's other items; the first item of a title is
\* the one a selected title resolves to.
first_other_titled(s, b, id, tname) ==
    Min({o \in board_items(s, b) \ {id} : s.items[o].title = tname})

\* "Save" of the item expander: the form f is
\* [title, status, gsel, start, due, tstart, tend, own_sel, dep_sel].
save_item(s, b, id, f) ==
    LET s1 == [s EXCEPT !.items[id].title = f.title, !.items[id].status = f.status]
    IN IF ~HasGroupNamed(s, b, f.gsel) THEN s1
       ELSE LET s2 == [s1 EXCEPT !.items[id].group_id = first_group_named(s, b, f.gsel),
                                 !.items[id].start_date = ensure_date(f.start),
                                 !.items[id].due_date = ensure_date(f.due),
                                 !.items[id].timeline_start = ensure_date(f.tstart),
                                 !.items[id].timeline_end = ensure_date(f.tend)]
                current_owner_ids == members_for_item(s2, id)
                wanted_owner_ids ==
                    {u \in DOMAIN s2.team_members : s2.team_members[u].name \in f.own_sel}
                s3 == unassign_all(s2, id, current_owner_ids \ wanted_owner_ids)
                s4 == assign_all(s3, id, wanted_owner_ids \ current_owner_ids)
                s5 == dep_clear_for_item(s4, id)
            IN dep_add_all(s5, id, {first_other_titled(s, b, id, tn) : tn \in f.dep_sel})

delete_item_keeping_incoming(s, id) ==
    [s EXCEPT !.items = Pop(@, id),
              !.item_assignments = {p \in @ : p[1] # id},
              !.item_dependencies = {p \in @ : p[1] # id}]

\* "Delete" of the item expander.
delete_item(s, id) ==
    [s EXCEPT !.items = Pop(@, id),
              !.item_assignments = {p \in @ : p[1] # id},
              !.item_dependencies = {p \in @ : p[1] # id /\ p[2] # id}]

move_disabled_only_done(s, id) ==
    item_is_blocked(s, id) /\ next_status(s.items[id].status) \in {"Done"}

move_disabled_only_in_progress(s, id) ==
    item_is_blocked(s, id) /\ next_status(s.items[id].status) \in {"In progress"}

\* disabled = blocked and next_status(lane) in ("In progress", "Done")
move_disabled(s, id) ==
    item_is_blocked(s, id) /\ next_status(s.items[id].status) \in {"In progress", "Done"}

\* The "Move" button of a Kanban card.
kanban_move(s, id) == [s EXCEPT !.items[id].status = next_status(@)]

\* name_to_gid: a later group (in display order) of the same name wins.
name_to_gid(s, b, name) ==
    LET gs == board_groups(s, b)
    IN gs[Max({j \in 1..Len(gs) : s.groups[gs[j]].name = name})]

\* for idx, name in enumerate(order): groups[name_to_gid[name]]["position"] = idx
RECURSIVE apply_order_from(_, _, _, _)
apply_order_from(s, gid_of, order, k) ==
    IF k > Len(order) THEN s
    ELSE apply_order_from([s EXCEPT !.groups[gid_of[k]].position = k - 1],
                          gid_of, order, k + 1)

\* "Apply order": the ids are looked up in the groups as prefetched.
apply_order(s, b, order) ==
    apply_order_from(s, [k \in 1..Len(order) |-> name_to_gid(s, b, order[k])], order, 1)

\* "Seed a few tasks".
seed_tasks(s, b) ==
    LET gs == board_groups(s, b)
        s0 == IF Len(gs) > 0 THEN s ELSE add_group(s, b, "Backlog", 0)
        g == IF Len(gs) > 0 THEN gs[1] ELSE s0.uuid
        s1 == add_item(s0, b, g, "Task 1", "Not started", None, None, None, None)
        s2 == add_item(s1, b, g, "Task 2", "Not started", None, None, None, None)
    IN add_item(s2, b, g, "Task 3", "Not started", None, None, None, None)

\* ------------------------------------------------------------ user inputs
\* What the user types or picks; each form is the widgets' defaults with at
\* most one widget changed (one click in a multiselect toggles one option).
MemberNameInputs == {"Alice", "Dana"}

BoardNameInputs == {"Sample Project", "Ops"}

GroupNameInputs == {"", "Review"}

PositionInputs == {0, 5}

TitleInputs == {"Docs"}

\* The four date widgets (start, due, timeline start, timeline end), set together.
DateInputs == {<<None, None, None, None>>, <<SeedDay, SeedDay + 7, SeedDay, SeedDay + 7>>}

Toggle(S, x) == IF x \in S THEN S \ {x} ELSE S \cup {x}

SeqToSet(q) == {q[k] : k \in 1..Len(q)}

add_item_default(s, b, t) ==
    [title |-> t,
     gname |-> IF Len(group_names(s, b)) > 0 THEN group_names(s, b)[1] ELSE "",
     status |-> STATUS_CHOICES[1],
     start |-> None, due |-> None, tstart |-> None, tend |-> None,
     owners |-> {}]

AddItemForms(s, b) ==
    UNION {LET d == add_item_default(s, b, t)
           IN {d}
              \cup {[d EXCEPT !.gname = x] : x \in SeqToSet(group_names(s, b))}
              \cup {[d EXCEPT !.status = x] : x \in StatusSet}
              \cup {[d EXCEPT !.start = x[1], !.due = x[2], !.tstart = x[3],
                              !.tend = x[4]] : x \in DateInputs}
              \cup {[d EXCEPT !.owners = {x}] : x \in member_names(s)}
           : t \in TitleInputs}

\* The expander's widgets show the item's current values.
save_default(s, b, id) ==
    LET gs == board_groups(s, b)
        at == {j \in 1..Len(gs) : gs[j] = s.items[id].group_id}
        others == board_items(s, b) \ {id}
        dep_current == {p[2] : p \in {q \in s.item_dependencies : q[1] = id}}
    IN [title |-> s.items[id].title,
        status |-> s.items[id].status,
        gsel |-> IF Len(gs) = 0 THEN ""
                 ELSE IF at # {} THEN s.groups[gs[Min(at)]].name
                 ELSE s.groups[gs[1]].name,
        start |-> s.items[id].start_date, due |-> s.items[id].due_date,
        tstart |-> s.items[id].timeline_start, tend |-> s.items[id].timeline_end,
        own_sel |-> {s.team_members[u].name : u \in members_for_item(s, id)},
        dep_sel |-> {s.items[o].title : o \in others \cap dep_current}]

SaveForms(s, b, id) ==
    LET d == save_default(s, b, id)
        other_titles == {s.items[o].title : o \in board_items(s, b) \ {id}}
    IN {d}
       \cup {[d EXCEPT !.title = x] : x \in TitleInputs}
       \cup {[d EXCEPT !.status = x] : x \in StatusSet}
       \cup {[d EXCEPT !.gsel = x] : x \in SeqToSet(group_names(s, b))}
       \cup {[d EXCEPT !.start = x[1], !.due = x[2], !.tstart = x[3],
                       !.tend = x[4]] : x \in DateInputs}
       \cup {[d EXCEPT !.own_sel = Toggle(@, x)] : x \in member_names(s)}
       \cup {[d EXCEPT !.dep_sel = Toggle(@, x)] : x \in other_titles}

\* The multiselect of "Reorder groups": the options are the group names in
\* display order, each picked at most once: all of them in any order, or
\* all but one of them.
OrderInputs(s, b) ==
    LET names == group_names(s, b)
        n == Len(names)
        picks == [1..n -> 1..n] \cup (IF n > 0 THEN [1..(n - 1) -> 1..n] ELSE {})
    IN {[k \in 1..Len(p) |-> names[p[k]]] :
           p \in {q \in picks : \A i, j \in 1..Len(q) : i # j => q[i] # q[j]}}

\* ---------------------------------------------------------------- workload
\* What the Workload tab shows: nothing yet ("none"), "No items yet."
\* ("noitems"), the warning of a window that ends before it starts ("warn"),
\* or the table of task-days per member ("ok", rows: member id -> load).
NoReport == [status |-> "none", start |-> None, end |-> None, today |-> None, rows |-> <<>>]

\* s and e of an item: the fallbacks of the date fields, today when the item
\* has no date at all, and the one that is missing set to the other.
item_start(it, today) ==
    LET s == Or3(it.timeline_start, it.start_date, it.due_date)
        e == Or3(it.timeline_end, it.due_date, it.start_date)
    IN IF s = None /\ e = None THEN today
       ELSE IF s = None THEN e
       ELSE s

item_end(it, today) ==
    LET s == Or3(it.timeline_start, it.start_date, it.due_date)
        e == Or3(it.timeline_end, it.due_date, it.start_date)
    IN IF s = None /\ e = None THEN today
       ELSE IF e = None THEN s
       ELSE e

Larger(a, b) == IF a >= b THEN a ELSE b

Smaller(a, b) == IF a <= b THEN a ELSE b

overlap_days_exclusive(s, e, start, end) ==
    LET days == IF Larger(s, start) <= Smaller(e, end)
                THEN Smaller(e, end) - Larger(s, start)
                ELSE 0
    IN Larger(0, days)

\* days of one item: 0 unless max(s, start) <= min(e, end), then the number of
\* days from the one to the other, both counted; load takes max(0, days).
overlap_days(s, e, start, end) ==
    LET days == IF Larger(s, start) <= Smaller(e, end)
                THEN (Smaller(e, end) - Larger(s, start)) + 1
                ELSE 0
    IN Larger(0, days)

\* The loop over the prefetched items of the board for one member.
RECURSIVE load_loop(_, _, _, _, _, _)
load_loop(s, todo, uid, start, end, today) ==
    IF todo = {} THEN 0
    ELSE LET id == Min(todo)
             rest == load_loop(s, todo \ {id}, uid, start, end, today)
         IN IF <<id, uid>> \notin s.item_assignments THEN rest
            ELSE overlap_days(item_start(s.items[id], today),
                              item_end(s.items[id], today), start, end) + rest

member_load_of_every_item(s, b, uid, start, end, today) ==
    load_loop(s, DOMAIN s.items, uid, start, end, today)

member_load(s, b, uid, start, end, today) ==
    load_loop(s, board_items(s, b), uid, start, end, today)

workload(s, b, start, end, today) ==
    IF board_items(s, b) = {}
    THEN [status |-> "noitems", start |-> start, end |-> end, today |-> today,
          rows |-> <<>>]
    ELSE IF start > end
    THEN [status |-> "warn", start |-> start, end |-> end, today |-> today,
          rows |-> <<>>]
    ELSE [status |-> "ok", start |-> start, end |-> end, today |-> today,
          rows |-> [uid \in DOMAIN s.team_members |->
                       member_load(s, b, uid, start, end, today)]]

\* ------------------------------------------------------------------ actions
Op(name, board, a, b, order) ==
    [op |-> name, board |-> board, a |-> a, b |-> b, order |-> order]

\* One run of the script that handles one click: the store before it is kept
\* in prev and the click in lastOp.
Run(op, s2) ==
    /\ steps < MaxSteps
    /\ ss' = s2
    /\ prev' = ss
    /\ lastOp' = op
    /\ steps' = steps + 1
    /\ wl' = NoReport

cur == current_board_id(ss, sel_board_name)

first_board_name(s) == s.boards[Min(DOMAIN s.boards)].name

Init ==
    /\ ss = ss_init
    /\ sel_board_name = first_board_name(ss_init)
    /\ prev = ss_init
    /\ lastOp = Op("init", None, GhostId, GhostId, <<>>)
    /\ wl = NoReport
    /\ steps = 0

SelectBoard ==
    /\ steps < MaxSteps
    /\ \E b \in DOMAIN ss.boards :
        /\ ss.boards[b].name # sel_board_name
        /\ sel_board_name' = ss.boards[b].name
        /\ Run(Op("select_board", cur, b, GhostId, <<>>), ss)

AddMember ==
    /\ steps < MaxSteps
    /\ \E name \in MemberNameInputs :
        /\ Run(Op("add_member", cur, GhostId, GhostId, <<>>), add_member(ss, name))
        /\ UNCHANGED sel_board_name

\* The selectbox keeps its value or, its options having changed, goes back to
\* its first option.
CreateBoard ==
    /\ steps < MaxSteps
    /\ \E nb \in BoardNameInputs :
        /\ Run(Op("create_board", cur, GhostId, GhostId, <<>>), create_board(ss, nb))
        /\ sel_board_name' \in {sel_board_name, first_board_name(ss)}

ClearBoard ==
    /\ steps < MaxSteps
    /\ cur # None
    /\ Run(Op("clear_board", cur, GhostId, GhostId, <<>>), clear_board(ss, cur))
    /\ UNCHANGED sel_board_name

AddItem ==
    /\ steps < MaxSteps
    /\ cur # None
    /\ \E f \in AddItemForms(ss, cur) :
           Run(Op("add_item", cur, ss.uuid + 1, GhostId, <<>>), add_item_form(ss, cur, f))
    /\ UNCHANGED sel_board_name

Save ==
    /\ steps < MaxSteps
    /\ cur # None
    /\ \E id \in board_items(ss, cur) : \E f \in SaveForms(ss, cur, id) :
           Run(Op("save", cur, id, GhostId, <<>>), save_item(ss, cur, id, f))
    /\ UNCHANGED sel_board_name

Delete ==
    /\ steps < MaxSteps
    /\ cur # None
    /\ \E id \in board_items(ss, cur) :
           Run(Op("delete", cur, id, GhostId, <<>>), delete_item(ss, id))
    /\ UNCHANGED sel_board_name

\* A click on the "Move" button of card id; a disabled button takes no click.
KanbanMoveOf(id) ==
    /\ steps < MaxSteps
    /\ cur # None
    /\ id \in board_items(ss, cur)
    /\ ~move_disabled(ss, id)
    /\ Run(Op("move", cur, id, GhostId, <<>>), kanban_move(ss, id))
    /\ UNCHANGED sel_board_name

KanbanMove == \E id \in DOMAIN ss.items : KanbanMoveOf(id)

CreateGroup ==
    /\ steps < MaxSteps
    /\ cur # None
    /\ \E gname \in GroupNameInputs : \E gpos \in PositionInputs :
           Run(Op("create_group", cur, ss.uuid + 1, GhostId, <<>>),
               add_group(ss, cur, IF gname = "" THEN "New Group" ELSE gname, gpos))
    /\ UNCHANGED sel_board_name

ApplyOrder ==
    /\ steps < MaxSteps
    /\ cur # None
    /\ \E order \in OrderInputs(ss, cur) :
           Run(Op("apply_order", cur, GhostId, GhostId, order), apply_order(ss, cur, order))
    /\ UNCHANGED sel_board_name

SeedTasks ==
    /\ steps < MaxSteps
    /\ cur # None
    /\ Run(Op("seed_tasks", cur, GhostId, GhostId, <<>>), seed_tasks(ss, cur))
    /\ UNCHANGED sel_board_name

Next ==
    \/ SelectBoard
    \/ AddMember
    \/ CreateBoard
    \/ ClearBoard
    \/ AddItem
    \/ Save
    \/ Delete
    \/ KanbanMove
    \/ CreateGroup
    \/ ApplyOrder
    \/ SeedTasks

Spec == Init /\ [][Next]_vars

\* ------------------------------------------------- direct calls (SpecApi)
\* The store's operations called directly, with the ids a caller may pass:
\* the ids of the tables and one id that names nothing.
ItemArgs == (DOMAIN ss.items) \cup {GhostId}

MemberArgs == (DOMAIN ss.team_members) \cup {GhostId}

BoardArgs == (DOMAIN ss.boards) \cup {GhostId}

GroupArgs == (DOMAIN ss.groups) \cup {GhostId}

Call(op, s2) == Run(op, s2) /\ UNCHANGED sel_board_name

CallAddMember ==
    /\ steps < MaxSteps
    /\ \E name \in MemberNameInputs :
           Call(Op("add_member", None, ss.uuid + 1, GhostId, <<>>), add_member(ss, name))

CallAddBoard ==
    /\ steps < MaxSteps
    /\ \E name \in BoardNameInputs :
           Call(Op("add_board", None, ss.uuid + 1, GhostId, <<>>), add_board(ss, name))

CallAddGroup ==
    /\ steps < MaxSteps
    /\ \E b \in BoardArgs : \E pos \in PositionInputs :
           Call(Op("add_group", b, ss.uuid + 1, GhostId, <<>>),
                add_group(ss, b, "New Group", pos))

CallAddItem ==
    /\ steps < MaxSteps
    /\ \E b \in BoardArgs : \E g \in GroupArgs : \E st \in {"Not started", "Done"} :
       \E t \in TitleInputs :
           Call(Op("add_item", b, ss.uuid + 1, g, <<>>),
                add_item(ss, b, g, t, st, None, None, None, None))

CallAssign ==
    /\ steps < MaxSteps
    /\ \E i \in ItemArgs : \E u \in MemberArgs :
           Call(Op("assign", None, i, u, <<>>), assign(ss, i, u))

CallUnassign ==
    /\ steps < MaxSteps
    /\ \E i \in ItemArgs : \E u \in MemberArgs :
           Call(Op("unassign", None, i, u, <<>>), unassign(ss, i, u))

CallDepAdd ==
    /\ steps < MaxSteps
    /\ \E i \in ItemArgs : \E d \in ItemArgs :
           Call(Op("dep_add", None, i, d, <<>>), dep_add(ss, i, d))

CallDepClear ==
    /\ steps < MaxSteps
    /\ \E i \in ItemArgs :
           Call(Op("dep_clear", None, i, GhostId, <<>>), dep_clear_for_item(ss, i))

\* The Delete and Move buttons on an item of any board.
CallDelete ==
    /\ steps < MaxSteps
    /\ \E i \in DOMAIN ss.items :
           Call(Op("delete", ss.items[i].board_id, i, GhostId, <<>>), delete_item(ss, i))

CallMove ==
    /\ steps < MaxSteps
    /\ \E i \in DOMAIN ss.items :
           /\ ~move_disabled(ss, i)
           /\ Call(Op("move", ss.items[i].board_id, i, GhostId, <<>>), kanban_move(ss, i))

NextApi ==
    \/ CallAddMember
    \/ CallAddBoard
    \/ CallAddGroup
    \/ CallAddItem
    \/ CallAssign
    \/ CallUnassign
    \/ CallDepAdd
    \/ CallDepClear
    \/ CallDelete
    \/ CallMove

SpecApi == Init /\ [][NextApi]_vars

\* ------------------------------------------- Workload tab (SpecWorkload)
Days == 0..MaxDay

DateVals == {None} \cup Days

\* A store the handlers reach: the demo board cleared, a second board, an
\* item of the first board with any dates, assigned to Alice, and a second
\* item on either board, with or without dates, assigned to Alice or to Bob.
workload_store(sd, dd, ts, te, b2name, owner2, dates2) ==
    LET b1 == current_board_id(ss_init, first_board_name(ss_init))
        s1 == create_board(clear_board(ss_init, b1), "Ops")
        fA == [add_item_default(s1, b1, "Docs") EXCEPT
                  !.start = sd, !.due = dd, !.tstart = ts, !.tend = te,
                  !.owners = {"Alice"}]
        s2 == add_item_form(s1, b1, fA)
        b2 == current_board_id(s2, b2name)
        fB == [add_item_default(s2, b2, "Docs") EXCEPT
                  !.start = dates2[1], !.due = dates2[2], !.tstart = dates2[3],
                  !.tend = dates2[4], !.owners = {owner2}]
    IN add_item_form(s2, b2, fB)

InitWorkload ==
    /\ \E sd \in DateVals, dd \in DateVals, ts \in DateVals, te \in DateVals :
       \E b2name \in {"Sample Project", "Ops"}, owner2 \in {"Alice", "Bob"} :
       \E dates2 \in {<<None, None, None, None>>, <<SeedDay, MaxDay, None, None>>} :
           ss = workload_store(sd, dd, ts, te, b2name, owner2, dates2)
    /\ sel_board_name \in {"Sample Project", "Ops"}
    /\ prev = ss
    /\ lastOp = Op("init", None, GhostId, GhostId, <<>>)
    /\ wl = NoReport
    /\ steps = 0

\* One run of the script with the Workload tab's From, To and the day's date.
\* The table is computed from the store alone and changes nothing of it, so
\* one view per store is explored.
WorkloadView ==
    /\ wl.status = "none"
    /\ cur # None
    /\ \E start \in Days, end \in Days, today \in Days :
           /\ wl' = workload(ss, cur, start, end, today)
           /\ lastOp' = Op("workload", cur, start, end, <<>>)
    /\ prev' = ss
    /\ UNCHANGED <<ss, sel_board_name, steps>>

NextWorkload == WorkloadView

SpecWorkload == InitWorkload /\ [][NextWorkload]_vars

\* ------------------------------------------- effort of an item (SpecEffort)
item_effort_days_unfloored(it) ==
    LET start == Or3(it.timeline_start, it.start_date, it.due_date)
        end == Or3(it.timeline_end, it.due_date, it.start_date)
    IN IF start = None /\ end = None THEN 1
       ELSE IF end = None THEN 1
       ELSE IF start = None THEN 1
       ELSE (end - start) + 1

\* start and end by the fallbacks of the date fields; 1 when there is neither,
\* the missing one set to the other, then max(1, (end - start).days + 1).
item_effort_days(it) ==
    LET start == Or3(it.timeline_start, it.start_date, it.due_date)
        end == Or3(it.timeline_end, it.due_date, it.start_date)
    IN IF start = None /\ end = None THEN 1
       ELSE IF end = None THEN Larger(1, (start - start) + 1)
       ELSE IF start = None THEN Larger(1, (end - end) + 1)
       ELSE Larger(1, (end - start) + 1)

\* The demo store with one more item, added through the Add item form with
\* any combination of the four dates.
effort_store(sd, dd, ts, te) ==
    LET b1 == current_board_id(ss_init, first_board_name(ss_init))
        f == [add_item_default(ss_init, b1, "Docs") EXCEPT
                 !.start = sd, !.due = dd, !.tstart = ts, !.tend = te]
    IN add_item_form(ss_init, b1, f)

InitEffort ==
    /\ \E sd \in DateVals, dd \in DateVals, ts \in DateVals, te \in DateVals :
           ss = effort_store(sd, dd, ts, te)
    /\ sel_board_name = first_board_name(ss_init)
    /\ prev = ss
    /\ lastOp = Op("init", None, GhostId, GhostId, <<>>)
    /\ wl = NoReport
    /\ steps = 0

\* item_effort_days(item) on an item of the store: the item is read, the
\* number of days is returned, nothing is written.
EffortDays ==
    /\ wl.status = "none"
    /\ \E i \in DOMAIN ss.items :
           /\ wl' = [NoReport EXCEPT !.status = "effort",
                                     !.rows = Put(<<>>, i, item_effort_days(ss.items[i]))]
           /\ lastOp' = Op("effort", ss.items[i].board_id, i, GhostId, <<>>)
    /\ prev' = ss
    /\ UNCHANGED <<ss, sel_board_name, steps>>

NextEffort == EffortDays

SpecEffort == InitEffort /\ [][NextEffort]_vars

\* ------------------------------------- Export / Import JSON (SpecSnapshot)
\* A date field in the text Series.to_json() writes: null for None, and for a
\* date the number of milliseconds since 1970-01-01 (date_format is left at
\* its default, "epoch"). The number is kept as its count of whole days, the
\* milliseconds of a day being a fixed factor.
json_date(v) ==
    IF v = None THEN [null |-> TRUE, ms_days |-> 0]
    ELSE [null |-> FALSE, ms_days |-> v + DaysSinceEpoch]

\* if v.get(key): pd.to_datetime(v[key]).date(), else None. A number is read
\* as nanoseconds since 1970-01-01, so a count of ms_days days of milliseconds
\* is the day ms_days / NsPerMs after 1970-01-01; null and 0 are falsy.
parse_date(j) ==
    IF j.null \/ j.ms_days = 0 THEN None
    ELSE (j.ms_days \div NsPerMs) - DaysSinceEpoch

PairLess(p, q) == p[1] < q[1] \/ (p[1] = q[1] /\ p[2] < q[2])

\* list(map(list, a_set)): the pairs in the order the set is iterated, here
\* ascending or descending.
RECURSIVE list_of_set(_, _)
list_of_set(S, up) ==
    IF S = {} THEN <<>>
    ELSE LET p == CHOOSE x \in S : \A y \in S \ {x} :
                      IF up THEN PairLess(x, y) ELSE PairLess(y, x)
         IN <<p>> \o list_of_set(S \ {p}, up)

\* data_blob as read back from the exported text.
export_json(s, up_a, up_d) ==
    [team_members |-> s.team_members,
     boards |-> s.boards,
     groups |-> s.groups,
     items |-> [i \in DOMAIN s.items |->
                   [s.items[i] EXCEPT !.start_date = json_date(@),
                                      !.due_date = json_date(@),
                                      !.timeline_start = json_date(@),
                                      !.timeline_end = json_date(@)]],
     item_assignments |-> list_of_set(s.item_assignments, up_a),
     item_dependencies |-> list_of_set(s.item_dependencies, up_d)]

import_json(s, blob) ==
    [s EXCEPT !.team_members = blob.team_members,
              !.boards = blob.boards,
              !.groups = blob.groups,
              !.items = [i \in DOMAIN blob.items |->
                            [blob.items[i] EXCEPT !.start_date = parse_date(@),
                                                  !.due_date = parse_date(@),
                                                  !.timeline_start = parse_date(@),
                                                  !.timeline_end = parse_date(@)]],
              !.item_assignments = SeqToSet(blob.item_assignments),
              !.item_dependencies = SeqToSet(blob.item_dependencies)]

\* The file downloaded with Export JSON is uploaded with Import JSON.
ExportImport ==
    /\ steps < MaxSteps
    /\ \E up_a \in BOOLEAN, up_d \in BOOLEAN :
           Run(Op("import", None, GhostId, GhostId, <<>>),
               import_json(ss, export_json(ss, up_a, up_d)))
    /\ UNCHANGED sel_board_name

NextSnapshot ==
    \/ Delete
    \/ ExportImport

SpecSnapshot == InitEffort /\ [][NextSnapshot]_vars

\* ---------------------------- dependencies and Kanban moves (SpecCycle)
\* From the demo store, dep_add between items of the store and clicks on the
\* enabled Move buttons: no pair is ever removed and a status changes by a
\* move only.
CycleRun(op, s2) ==
    /\ ss' = s2
    /\ prev' = ss
    /\ lastOp' = op
    /\ steps' = steps + 1
    /\ wl' = NoReport
    /\ UNCHANGED sel_board_name

CycleDepAdd ==
    /\ steps < MaxCycleSteps
    /\ \E i \in DOMAIN ss.items : \E d \in DOMAIN ss.items :
           CycleRun(Op("dep_add", None, i, d, <<>>), dep_add(ss, i, d))

CycleMove ==
    /\ steps < MaxCycleSteps
    /\ \E i \in DOMAIN ss.items :
           /\ ~move_disabled(ss, i)
           /\ CycleRun(Op("move", ss.items[i].board_id, i, GhostId, <<>>),
                       kanban_move(ss, i))

NextCycle ==
    \/ CycleDepAdd
    \/ CycleMove

SpecCycle == Init /\ [][NextCycle]_vars

\* ------------------------------------------------------------------ claims
\* C1: right after the Delete of item x, x is gone, no assignment pair (x, m)
\* and no dependency pair (x, j) or (j, x) is left, and every pair that does
\* not mention x is kept.
C1_DeleteRemovesEveryPair ==
    lastOp.op = "delete" =>
        LET x == lastOp.a
        IN /\ x \notin DOMAIN ss.items
           /\ \A p \in ss.item_assignments : p[1] # x
           /\ \A p \in ss.item_dependencies : p[1] # x /\ p[2] # x
           /\ \A p \in prev.item_assignments : p[1] # x => p \in ss.item_assignments
           /\ \A p \in prev.item_dependencies :
                  (p[1] # x /\ p[2] # x) => p \in ss.item_dependencies
           /\ ss.item_assignments \subseteq prev.item_assignments
           /\ ss.item_dependencies \subseteq prev.item_dependencies

\* A deleted item that was assigned, depended on another item and was depended
\* on, with pairs of other items left in both relations.
C1_Witness ==
    /\ lastOp.op = "delete"
    /\ \E p \in prev.item_assignments : p[1] = lastOp.a
    /\ \E p \in prev.item_dependencies : p[1] = lastOp.a
    /\ \E p \in prev.item_dependencies : p[2] = lastOp.a
    /\ ss.item_assignments # {}

\* C2: in every state reached from the seeded store by the page's handlers,
\* every item id in an assignment pair or at either end of a dependency pair
\* is the id of an item of the items table.
C2_RelationsNameExistingItems ==
    /\ \A p \in ss.item_assignments : p[1] \in DOMAIN ss.items
    /\ \A p \in ss.item_dependencies :
           p[1] \in DOMAIN ss.items /\ p[2] \in DOMAIN ss.items

\* Items were removed (Delete or Clear board items) while pairs mentioned
\* them, and both relations still hold pairs.
C2_Witness ==
    /\ lastOp.op \in {"delete", "clear_board"}
    /\ \E p \in prev.item_assignments : p[1] \notin DOMAIN ss.items
    /\ \E p \in prev.item_dependencies :
           p[1] \notin DOMAIN ss.items \/ p[2] \notin DOMAIN ss.items
    /\ ss.item_assignments # {}
    /\ ss.item_dependencies # {}

\* The status cycle as the claim states it.
CycleNext(status) ==
    CASE status = "Not started" -> "In progress"
      [] status = "In progress" -> "Blocked"
      [] status = "Blocked" -> "Done"
      [] status = "Done" -> "Not started"

\* C4: a Kanban move sets the item's status to the next status of the cycle;
\* the move of an item of the current board can be made exactly when the item
\* is not blocked or its target status is Blocked or Not started, so a move of
\* a blocked item into In progress or Done never happens.
C4_MoveFollowsCycleAndGate ==
    /\ lastOp.op = "move" =>
           /\ ss.items[lastOp.a].status = CycleNext(prev.items[lastOp.a].status)
           /\ ~(/\ item_is_blocked(prev, lastOp.a)
                /\ ss.items[lastOp.a].status \in {"In progress", "Done"})
    /\ (steps < MaxSteps /\ cur # None) =>
           \A id \in board_items(ss, cur) :
               LET target == CycleNext(ss.items[id].status)
               IN /\ target \in {"Blocked", "Not started"} => ENABLED KanbanMoveOf(id)
                  /\ (item_is_blocked(ss, id) /\ target \in {"In progress", "Done"})
                         => ~ENABLED KanbanMoveOf(id)
                  /\ ~item_is_blocked(ss, id) => ENABLED KanbanMoveOf(id)

\* A blocked item was moved (into Blocked or Not started) while another
\* blocked item of the board cannot be moved into In progress or Done.
C4_Witness ==
    /\ lastOp.op = "move"
    /\ item_is_blocked(prev, lastOp.a)
    /\ ss.items[lastOp.a].status = "Blocked"
    /\ \E id \in board_items(ss, cur) :
           /\ item_is_blocked(ss, id)
           /\ CycleNext(ss.items[id].status) \in {"In progress", "Done"}
           /\ move_disabled(ss, id)

\* The multiset of the names of a sequence, as a count per name.
NameCount(q, name) == Cardinality({k \in 1..Len(q) : q[k] = name})

\* C7 (as stated): after Apply order with every group of the board listed once,
\* the positions of the board's groups are 0..n-1, the group named at index k
\* has position k, and the groups of other boards keep their positions.
C7_ReorderIsDense ==
    (/\ lastOp.op = "apply_order"
     /\ Len(lastOp.order) = Len(board_groups(prev, lastOp.board))
     /\ \A name \in SeqToSet(lastOp.order) :
            NameCount(lastOp.order, name) = NameCount(group_names(prev, lastOp.board), name))
    => LET b == lastOp.board
           G == {g \in DOMAIN ss.groups : ss.groups[g].board_id = b}
           n == Cardinality(G)
       IN /\ \A k \in 0..(n - 1) :
                 Cardinality({g \in G : ss.groups[g].position = k}) = 1
          /\ \A k \in 1..n :
                 \E g \in G : ss.groups[g].name = lastOp.order[k]
                              /\ ss.groups[g].position = k - 1
          /\ \A g \in DOMAIN ss.groups :
                 ss.groups[g].board_id # b => ss.groups[g] = prev.groups[g]

\* C3: an item is blocked exactly when some dependency pair (i, d) has a target
\* d that is missing from the items table or whose status is not Done; an item
\* with no outgoing pair is not blocked, and neither is one whose every target
\* exists and is Done.
C3_BlockedIffUnmetDependency ==
    \A i \in ItemArgs :
        LET targets == {p[2] : p \in {q \in ss.item_dependencies : q[1] = i}}
            unmet == {d \in targets : d \notin DOMAIN ss.items \/ ss.items[d].status # "Done"}
        IN /\ item_is_blocked(ss, i) <=> (unmet # {})
           /\ targets = {} => ~item_is_blocked(ss, i)
           /\ (\A d \in targets : d \in DOMAIN ss.items /\ ss.items[d].status = "Done")
                  => ~item_is_blocked(ss, i)

\* An item blocked only by a target that is missing, beside an item blocked by
\* an existing target that is not Done and an item with no dependency.
C3_Witness ==
    /\ \E i \in DOMAIN ss.items :
           /\ item_is_blocked(ss, i)
           /\ \A p \in ss.item_dependencies : p[1] = i => p[2] \notin DOMAIN ss.items
    /\ \E i \in DOMAIN ss.items :
           /\ item_is_blocked(ss, i)
           /\ \E p \in ss.item_dependencies : p[1] = i /\ p[2] \in DOMAIN ss.items
    /\ \E i \in DOMAIN ss.items :
           /\ ~item_is_blocked(ss, i)
           /\ \A p \in ss.item_dependencies : p[1] # i

\* C5: dep_add(i, i) changes nothing in the store, so no pair of the
\* dependency relation has two equal components; dep_add(i, d) with i # d adds
\* exactly the pair (i, d), and the same call again changes nothing.
C5_NoSelfDependency ==
    /\ \A p \in ss.item_dependencies : p[1] # p[2]
    /\ (lastOp.op = "dep_add" /\ lastOp.a = lastOp.b) => ss = prev
    /\ (lastOp.op = "dep_add" /\ lastOp.a # lastOp.b) =>
           /\ ss.item_dependencies = prev.item_dependencies \cup {<<lastOp.a, lastOp.b>>}
           /\ ss = [prev EXCEPT !.item_dependencies = ss.item_dependencies]
           /\ dep_add(ss, lastOp.a, lastOp.b) = ss
           /\ <<lastOp.a, lastOp.b>> \in prev.item_dependencies => ss = prev

\* dep_add(i, i) was called on an item of the table that has a dependency.
C5_Witness ==
    /\ lastOp.op = "dep_add"
    /\ lastOp.a = lastOp.b
    /\ lastOp.a \in DOMAIN ss.items
    /\ \E p \in ss.item_dependencies : p[1] = lastOp.a

\* C6: dep_clear_for_item(x) removes exactly the pairs whose first component is
\* x: no pair (x, d) is left, every pair (j, d) with j # x is kept (also the
\* pairs (j, x)), nothing is added, and the rest of the store is unchanged.
C6_ClearRemovesOutgoingOnly ==
    lastOp.op = "dep_clear" =>
        LET x == lastOp.a
        IN /\ \A p \in ss.item_dependencies : p[1] # x
           /\ \A p \in prev.item_dependencies : p[1] # x => p \in ss.item_dependencies
           /\ ss.item_dependencies \subseteq prev.item_dependencies
           /\ ss.item_assignments = prev.item_assignments
           /\ ss.items = prev.items
           /\ ss.groups = prev.groups
           /\ ss.boards = prev.boards
           /\ ss.team_members = prev.team_members

\* The cleared item had an outgoing pair and was the target of another pair.
C6_Witness ==
    /\ lastOp.op = "dep_clear"
    /\ \E p \in prev.item_dependencies : p[1] = lastOp.a
    /\ \E p \in ss.item_dependencies : p[2] = lastOp.a

\* C8 (as stated): assign with an item id that is not in the items table is
\* not accepted: the pair is not put into the assignment relation.
C8_AssignRejectsUnknownItem ==
    (lastOp.op = "assign" /\ lastOp.a \notin DOMAIN prev.items)
        => <<lastOp.a, lastOp.b>> \notin ss.item_assignments

\* The effective range of an item as the specification states it.
EffectiveStart(it, today) ==
    CASE it.timeline_start # None -> it.timeline_start
      [] it.timeline_start = None /\ it.start_date # None -> it.start_date
      [] it.timeline_start = None /\ it.start_date = None /\ it.due_date # None
             -> it.due_date
      [] OTHER -> IF it.timeline_end # None THEN it.timeline_end ELSE today

EffectiveEnd(it, today) ==
    CASE it.timeline_end # None -> it.timeline_end
      [] it.timeline_end = None /\ it.due_date # None -> it.due_date
      [] it.timeline_end = None /\ it.due_date = None /\ it.start_date # None
             -> it.start_date
      [] OTHER -> IF it.timeline_start # None THEN it.timeline_start ELSE today

\* max(0, min(item_end, window_end) - max(item_start, window_start) + 1)
ClippedDays(it, today, ws, we) ==
    Larger(0, (Smaller(EffectiveEnd(it, today), we)
               - Larger(EffectiveStart(it, today), ws)) + 1)

RECURSIVE SumClippedDays(_, _, _, _, _)
SumClippedDays(s, S, today, ws, we) ==
    IF S = {} THEN 0
    ELSE LET i == CHOOSE x \in S : TRUE
         IN ClippedDays(s.items[i], today, ws, we)
            + SumClippedDays(s, S \ {i}, today, ws, we)

AssignedItems(s, m) == {i \in DOMAIN s.items : <<i, m>> \in s.item_assignments}

\* C9 (as stated): for a window with start <= end the Workload tab reports, for
\* every member of the members table, the sum of the clipped days of the
\* items assigned to that member.
C9_WorkloadSumsAssignedItems ==
    (lastOp.op = "workload" /\ lastOp.a <= lastOp.b) =>
        /\ wl.status = "ok"
        /\ DOMAIN wl.rows = DOMAIN ss.team_members
        /\ \A m \in DOMAIN ss.team_members :
               wl.rows[m] = SumClippedDays(ss, AssignedItems(ss, m), wl.today,
                                           wl.start, wl.end)

\* C9 (amended): for a window with start <= end and a selected board that has
\* at least one item, the Workload tab reports, for every member of the
\* members table, the sum of the clipped days of the items of the selected
\* board that are assigned to that member (0 for a member with none).
C9_WorkloadSumsAssignedBoardItems ==
    (lastOp.op = "workload" /\ lastOp.a <= lastOp.b /\ board_items(ss, cur) # {}) =>
        /\ wl.status = "ok"
        /\ wl.start = lastOp.a /\ wl.end = lastOp.b
        /\ DOMAIN wl.rows = DOMAIN ss.team_members
        /\ \A m \in DOMAIN ss.team_members :
               wl.rows[m] = SumClippedDays(ss, AssignedItems(ss, m) \cap board_items(ss, cur),
                                           wl.today, wl.start, wl.end)

\* A report in which one member has two items of the board, one of them cut
\* by the window, and another member has none.
C9_Witness ==
    /\ lastOp.op = "workload"
    /\ wl.status = "ok"
    /\ \E m \in DOMAIN ss.team_members :
           /\ Cardinality(AssignedItems(ss, m) \cap board_items(ss, cur)) = 2
           /\ \E i \in AssignedItems(ss, m) \cap board_items(ss, cur) :
                  /\ EffectiveStart(ss.items[i], wl.today) < wl.start
                  /\ EffectiveEnd(ss.items[i], wl.today) >= wl.start
           /\ wl.rows[m] >= 2
    /\ \E m \in DOMAIN ss.team_members : AssignedItems(ss, m) = {} /\ wl.rows[m] = 0

\* C10: for a member with a single assigned item whose effective range lies
\* inside the window [A, C] of a report, the member's workload over [A, B] plus
\* the workload over [B+1, C] is the reported workload over [A, C], for every
\* B with A <= B < C.
C10_WorkloadAdditive ==
    wl.status = "ok" =>
        \A m \in DOMAIN ss.team_members :
            (/\ Cardinality(AssignedItems(ss, m)) = 1
             /\ \A i \in AssignedItems(ss, m) :
                    /\ wl.start <= EffectiveStart(ss.items[i], wl.today)
                    /\ EffectiveStart(ss.items[i], wl.today) <= wl.end
                    /\ wl.start <= EffectiveEnd(ss.items[i], wl.today)
                    /\ EffectiveEnd(ss.items[i], wl.today) <= wl.end)
            => \A B \in wl.start..(wl.end - 1) :
                   workload(ss, cur, wl.start, B, wl.today).rows[m]
                   + workload(ss, cur, B + 1, wl.end, wl.today).rows[m]
                   = wl.rows[m]

\* A member's single item lies inside the window and spans more than one day,
\* so some B splits it.
C10_Witness ==
    /\ wl.status = "ok"
    /\ \E m \in DOMAIN ss.team_members :
           /\ Cardinality(AssignedItems(ss, m)) = 1
           /\ \E i \in AssignedItems(ss, m) \cap board_items(ss, cur) :
                  /\ wl.start <= EffectiveStart(ss.items[i], wl.today)
                  /\ EffectiveStart(ss.items[i], wl.today) < EffectiveEnd(ss.items[i], wl.today)
                  /\ EffectiveEnd(ss.items[i], wl.today) <= wl.end
           /\ wl.rows[m] >= 2

\* C11: the effective duration computed for an item is max(1, end - start + 1)
\* with start = timeline_start, else start_date, else due_date and end =
\* timeline_end, else due_date, else start_date, a missing one of the two set
\* to the other; it is never below 1, it is exactly 1 when all four date
\* fields are absent, and computing it leaves the item as it was.
C11_EffortIsFlooredRangeLength ==
    lastOp.op = "effort" =>
        LET it == ss.items[lastOp.a]
            days == wl.rows[lastOp.a]
        IN /\ days = Larger(1, (EffectiveEnd(it, SeedDay) - EffectiveStart(it, SeedDay)) + 1)
           /\ days >= 1
           /\ (/\ it.start_date = None /\ it.due_date = None
               /\ it.timeline_start = None /\ it.timeline_end = None) => days = 1
           /\ ss = prev

\* The effort of an item whose end lies before its start (floored to 1), and
\* of an item whose two set fields span more than one day.
C11_Witness ==
    /\ lastOp.op = "effort"
    /\ LET it == ss.items[lastOp.a]
       IN /\ it.timeline_start # None /\ it.timeline_end # None
          /\ it.timeline_end < it.timeline_start
          /\ wl.rows[lastOp.a] = 1

\* C12 (as stated): after an export followed by the import of the exported
\* snapshot the store has the same four entity tables (same ids, same field
\* values, absent dates absent) and the same assignment and dependency pairs
\* as before, whatever the order of the relation lists in the snapshot.
C12_ExportImportRoundTrip ==
    lastOp.op = "import" =>
        /\ ss.team_members = prev.team_members
        /\ ss.boards = prev.boards
        /\ ss.groups = prev.groups
        /\ ss.items = prev.items
        /\ ss.item_assignments = prev.item_assignments
        /\ ss.item_dependencies = prev.item_dependencies

\* Items a and b of store s depend on each other and neither is Done.
OpenCycle(s, a, b) ==
    /\ a # b
    /\ <<a, b>> \in s.item_dependencies
    /\ <<b, a>> \in s.item_dependencies
    /\ s.items[a].status # "Done"
    /\ s.items[b].status # "Done"

\* C13: dep_add(a, b) for distinct items stores the pair and keeps the pairs
\* there were (so dep_add(a, b) then dep_add(b, a) stores both); while two
\* items depend on each other and neither is Done, both are blocked and the
\* move of either into In progress or Done is disabled; and a Kanban move
\* made from such a state leaves the two items depending on each other and
\* neither Done, so that no sequence of moves brings either to Done.
C13_CycleDeadlocksKanban ==
    /\ (lastOp.op = "dep_add" /\ lastOp.a # lastOp.b) =>
           /\ <<lastOp.a, lastOp.b>> \in ss.item_dependencies
           /\ prev.item_dependencies \subseteq ss.item_dependencies
    /\ \A a \in DOMAIN ss.items : \A b \in DOMAIN ss.items :
           OpenCycle(ss, a, b) =>
               /\ item_is_blocked(ss, a)
               /\ item_is_blocked(ss, b)
               /\ next_status(ss.items[a].status) \in {"In progress", "Done"}
                      => move_disabled(ss, a)
    /\ lastOp.op = "move" =>
           \A a \in DOMAIN prev.items : \A b \in DOMAIN prev.items :
               OpenCycle(prev, a, b) => OpenCycle(ss, a, b)

\* Two dep_add calls made a cycle of two items that did not depend on each
\* other, one of them was then moved (from In progress to Blocked), and now
\* the Move button of both items is disabled.
C13_Witness ==
    /\ lastOp.op = "move"
    /\ \E b \in DOMAIN ss.items :
           /\ OpenCycle(prev, lastOp.a, b)
           /\ <<lastOp.a, b>> \notin ss_init.item_dependencies
           /\ <<b, lastOp.a>> \notin ss_init.item_dependencies
           /\ prev.items[lastOp.a].status # ss.items[lastOp.a].status
           /\ move_disabled(ss, lastOp.a)
           /\ move_disabled(ss, b)

====
